---------------------------- MODULE Spec2Model ----------------------------
(***************************************************************************)
(* Model of the two reporting scripts of manager-github-helper-scripts:    *)
(*   src/capitalizacao.py  - the monthly variant (FILTER_MONTHS)           *)
(*   src/team_metrics.py   - the date-range variant (START_DATE..END_DATE) *)
(* Both resolve a project, fetch its items page by page through run_query, *)
(* filter and extract the closed issues, and write CSV and Markdown files. *)
(*                                                                         *)
(* Python values that can be None, a string, a number, a dict or a list    *)
(* are modelled as tagged records, so that `x is None`, `not x`, `k in d`  *)
(* and `d.get(k)` keep the meaning they have in the source.                *)
(*                                                                         *)
(* Of an issue the model carries number, title, state, closedAt and        *)
(* issueType; repository, parent, labels and assignees are copied through  *)
(* by the scripts without a decision depending on them and are left out,   *)
(* and with them extract_assignees and the count of people per type.       *)
(* closedAt is served in UTC ("...Z"), as the API does.                    *)
(***************************************************************************)
EXTENDS Integers, Sequences, FiniteSets, TLC

VARIABLES
    variant,        \* which script runs: "monthly" or "range"
    FILTER_MONTHS,  \* capitalizacao.py's CONFIG list of accepted months
    feed,           \* the project's items as the API holds them
    pc,             \* position of the script in its __main__ block
    project,        \* (project_id, project_title) once resolved
    cursor,         \* get_project_items: the cursor of the next request
    results,        \* get_project_items: the accumulated nodes
    log,            \* history: every page request, with what came back
    response,       \* the last HTTP response run_query received
    outcome,        \* what run_query did with it (returned or raised)
    posts,          \* history: number of requests.post calls
    calls,          \* history: number of run_query calls
    items,          \* __main__: the list returned by get_project_items
    filtered_issues,\* the ExtractedIssue records built so far, in order
    todo,           \* capitalizacao.py: months whose CSV is still to write
    files,          \* the files written by this run: name -> content
    writes,         \* history: the names of the files opened, in order
    md_lines,       \* the Markdown summary lines accumulated so far
    error,          \* where the run died and of what; at = "none" if it lives
    item,           \* extractor harness: the RawItem under test
    tipo,           \* extractor harness: extract_type(item)
    scope,          \* extractor harness: extract_scope(item)
    scope2          \* extractor harness: extract_scope(item) called again

vars == <<variant, FILTER_MONTHS, feed, pc, project, cursor, results, log,
          response, outcome, posts, calls, items, filtered_issues,
          todo, files, writes, md_lines, error, item, tipo, scope, scope2>>

---------------------------------------------------------------------------
(* Python values *)

None_ == [t |-> "None"]
Str(s) == [t |-> "str", v |-> s]
Num(n) == [t |-> "num", v |-> n]
Dict(f) == [t |-> "dict", v |-> f]
List(s) == [t |-> "list", v |-> s]
Bool(b) == [t |-> "bool", v |-> b]
EmptyDict == Dict([k \in {} |-> None_])

\* An exception leaving a function instead of a value.
Raise(e) == [t |-> "raise", v |-> e]

\* Python truthiness: `if x` / `not x`.
truthy(x) ==
    CASE x.t = "None" -> FALSE
      [] x.t = "str"  -> x.v /= ""
      [] x.t = "num"  -> x.v /= 0
      [] x.t = "bool" -> x.v
      [] x.t = "dict" -> DOMAIN x.v /= {}
      [] x.t = "list" -> Len(x.v) > 0

\* `k in d` for a dict d.
Has(d, k) == k \in DOMAIN d.v

\* x[k]: a TypeError on None, a KeyError on a missing key; an exception
\* raised while computing x propagates.
Index(x, k) ==
    IF x.t = "raise" THEN x
    ELSE IF x.t = "None" THEN Raise("TypeError")
    ELSE IF ~Has(x, k) THEN Raise("KeyError")
    ELSE x.v[k]

\* d.get(k) and d.get(k, default).
GetD(d, k, default) == IF Has(d, k) THEN d.v[k] ELSE default
Get(d, k) == GetD(d, k, None_)

\* str(n) for an integer n: its decimal form.
Digit(d) == CASE d = 0 -> "0" [] d = 1 -> "1" [] d = 2 -> "2" [] d = 3 -> "3"
              [] d = 4 -> "4" [] d = 5 -> "5" [] d = 6 -> "6" [] d = 7 -> "7"
              [] d = 8 -> "8" [] d = 9 -> "9"

RECURSIVE str(_)
str(n) == IF n < 0 THEN "-" \o str(-n)
          ELSE IF n < 10 THEN Digit(n)
          ELSE str(n \div 10) \o Digit(n % 10)

\* s.strip() and s.lower(), on the field names the model serves.
strip(s) == CASE s = " KIND " -> "KIND"
              [] s = " Scope" -> "Scope"
              [] OTHER -> s

lower(s) == CASE s = "Kind"   -> "kind"
              [] s = "KIND"   -> "kind"
              [] s = " KIND " -> " kind "
              [] s = "Type"   -> "type"
              [] s = "Scope"  -> "scope"
              [] s = " Scope" -> " scope"
              [] s = "Status" -> "status"
              [] OTHER -> s

KIND_FIELD == "Kind"
TYPE_FIELD == "Type"
SCOPE_FIELD == "Scope"

---------------------------------------------------------------------------
(* Field extractors *)

\* field.get("name") or field.get("text") or (str(number) if ... else None)
field_value_of(field) ==
    LET a == Get(field, "name")
        b == Get(field, "text")
        c == IF Has(field, "number") /\ field.v["number"].t /= "None"
             THEN Str(str(field.v["number"].v))
             ELSE None_
    IN  IF truthy(a) THEN a ELSE IF truthy(b) THEN b ELSE c

\* `not field or "field" not in field or not field["field"]`
skipped(field) ==
    \/ ~truthy(field)
    \/ ~Has(field, "field")
    \/ ~truthy(field.v["field"])

\* The for loop of extract_type from position i on, with the values found so
\* far; the loop ends with both values or with the exception it raised.
RECURSIVE scan_type(_, _, _, _)
scan_type(nodes, i, kind_value, type_value) ==
    IF i > Len(nodes)
    THEN [raised |-> FALSE, kind_value |-> kind_value, type_value |-> type_value]
    ELSE LET field == nodes[i] IN
         IF skipped(field) THEN scan_type(nodes, i + 1, kind_value, type_value)
         ELSE LET raw == GetD(field.v["field"], "name", Str("")) IN
              IF raw.t = "None"
              THEN [raised |-> TRUE, kind_value |-> kind_value,
                    type_value |-> type_value]
              ELSE LET field_name == lower(strip(raw.v))
                       field_value == field_value_of(field)
                   IN  IF ~truthy(field_value)
                       THEN scan_type(nodes, i + 1, kind_value, type_value)
                       ELSE IF field_name = lower(KIND_FIELD)
                       THEN scan_type(nodes, i + 1, field_value, type_value)
                       ELSE IF field_name = lower(TYPE_FIELD)
                       THEN scan_type(nodes, i + 1, kind_value, field_value)
                       ELSE scan_type(nodes, i + 1, kind_value, type_value)

\* Mutant of type_fallback: the Type value is tried before the Kind value.
type_fallback_type_first(it, kind_value, type_value) ==
    IF truthy(type_value) THEN type_value
    ELSE IF truthy(kind_value) THEN kind_value
    ELSE LET issue == Get(it, "content") IN
         IF truthy(issue) /\ Has(issue, "issueType") /\ truthy(issue.v["issueType"])
         THEN LET n == Get(issue.v["issueType"], "name") IN
              IF truthy(n) THEN n ELSE Str("Desconhecido")
         ELSE Str("Desconhecido")

\* Mutant of type_fallback: the issueType name is returned without its
\* `or "Desconhecido"`.
type_fallback_bare_name(it, kind_value, type_value) ==
    IF truthy(kind_value) THEN kind_value
    ELSE IF truthy(type_value) THEN type_value
    ELSE LET issue == Get(it, "content") IN
         IF truthy(issue) /\ Has(issue, "issueType") /\ truthy(issue.v["issueType"])
         THEN Get(issue.v["issueType"], "name")
         ELSE Str("Desconhecido")

\* The tail of extract_type: kind, then type, then issueType, then sentinel.
type_fallback(it, kind_value, type_value) ==
    IF truthy(kind_value) THEN kind_value
    ELSE IF truthy(type_value) THEN type_value
    ELSE LET issue == Get(it, "content") IN
         IF truthy(issue) /\ Has(issue, "issueType") /\ truthy(issue.v["issueType"])
         THEN LET n == Get(issue.v["issueType"], "name") IN
              IF truthy(n) THEN n ELSE Str("Desconhecido")
         ELSE Str("Desconhecido")

extract_type(it) ==
    IF ~Has(it, "fieldValues") THEN type_fallback(it, None_, None_)
    ELSE LET fv == it.v["fieldValues"] IN
         IF fv.t = "None" THEN Raise("TypeError")       \* "nodes" in None
         ELSE IF ~Has(fv, "nodes") THEN type_fallback(it, None_, None_)
         ELSE IF fv.v["nodes"].t = "None" THEN Raise("TypeError")  \* for .. in None
         ELSE LET r == scan_type(fv.v["nodes"].v, 1, None_, None_) IN
              IF r.raised THEN Raise("AttributeError")  \* None.strip()
              ELSE type_fallback(it, r.kind_value, r.type_value)

\* The for loop of extract_scope from position i on: the value it returns,
\* None_ when the loop runs out, or the exception it raised.
RECURSIVE scan_scope(_, _)
scan_scope(nodes, i) ==
    IF i > Len(nodes) THEN None_
    ELSE LET field == nodes[i] IN
         IF skipped(field) THEN scan_scope(nodes, i + 1)
         ELSE LET raw == GetD(field.v["field"], "name", Str("")) IN
              IF raw.t = "None" THEN Raise("AttributeError")
              ELSE LET field_name == lower(strip(raw.v))
                       field_value == field_value_of(field)
                   IN  IF ~truthy(field_value) THEN scan_scope(nodes, i + 1)
                       ELSE IF field_name = lower(SCOPE_FIELD) THEN field_value
                       ELSE scan_scope(nodes, i + 1)

extract_scope(it) ==
    IF ~Has(it, "fieldValues") THEN Str("Sem Scope")
    ELSE LET fv == it.v["fieldValues"] IN
         IF fv.t = "None" THEN Raise("TypeError")
         ELSE IF ~Has(fv, "nodes") THEN Str("Sem Scope")
         ELSE IF fv.v["nodes"].t = "None" THEN Raise("TypeError")
         ELSE LET r == scan_scope(fv.v["nodes"].v, 1) IN
              IF r.t = "None" THEN Str("Sem Scope") ELSE r

---------------------------------------------------------------------------
(* Bounds of the model *)

\* Longest project (number of items the API holds).
MaxItems == 3
\* Largest page the API serves; stands for `items(first: 50, ...)`.
MaxPage == 2
\* Longest fieldValues.nodes list given to the extractors on their own.
MaxFields == 2

---------------------------------------------------------------------------
(* The API: what the GraphQL endpoint holds and answers *)

ProjectTitle == "Team Board"

Field(fname, key, val) ==
    Dict([field |-> Dict([name |-> Str(fname)])] @@ (key :> val))

\* An Issue as the query of get_project_items selects it.
Issue(n, closedAt, issueType) ==
    Dict([number |-> Num(n), closedAt |-> closedAt, issueType |-> issueType,
          title |-> Str("t" \o str(n)), state |-> Str("CLOSED")])

RawItem(content, nodes) ==
    Dict([content |-> content, fieldValues |-> Dict([nodes |-> List(nodes)])])

KindBug     == Field("Kind", "name", Str("Bug"))
TypeFeature == Field("Type", "name", Str("Feature"))
ScopeCore   == Field(" Scope", "text", Str("Core"))
ScopeInfra  == Field("Scope", "name", Str("Infra"))
Points      == Field("Status", "number", Num(5))
\* A field value of a type the query has no fragment for comes back as {}.
Unselected  == EmptyDict
TaskType    == Dict([name |-> Str("Task")])

\* The items a project can hold, by the position n they take in it.
ItemShapes(n) ==
    { RawItem(None_, <<KindBug>>),
      RawItem(Issue(n, None_, None_), <<TypeFeature, ScopeCore>>),
      RawItem(Issue(n, Str("2025-09-30T23:59:59Z"), None_),
              <<KindBug, Unselected, ScopeCore>>),
      RawItem(Issue(n, Str("2025-10-06T23:59:59Z"), TaskType),
              <<Points, ScopeInfra>>),
      RawItem(Issue(n, Str("2025-10-07T23:59:59Z"), TaskType),
              <<TypeFeature>>),
      RawItem(Issue(n, Str("2025-12-10T23:59:59Z"), None_),
              <<TypeFeature, KindBug, ScopeCore>>),
      RawItem(Issue(n, Str("2025-12-11T00:00:00Z"), None_), <<>>) }

RECURSIVE Feeds(_)
Feeds(n) ==
    IF n = 0 THEN { <<>> }
    ELSE LET shorter == Feeds(n - 1) IN
         shorter \cup { Append(f, it) : f \in { g \in shorter : Len(g) = n - 1 },
                                        it \in ItemShapes(n) }

\* The opaque cursor the API hands out after k items, and its reading back.
cursor_of(k) == Str("c" \o str(k))
position_of(c) ==
    IF c.t = "None" THEN 0 ELSE CHOOSE k \in 0..Len(feed) : cursor_of(k) = c

\* The body of a page of n items from the position the cursor names.
page_body(c, n) ==
    LET from == position_of(c) IN
    Dict([data |-> Dict([node |-> Dict([items |-> Dict(
        [pageInfo |-> Dict([hasNextPage |-> Bool(from + n < Len(feed)),
                             endCursor |-> IF n = 0 THEN None_
                                           ELSE cursor_of(from + n)]),
         nodes |-> List(SubSeq(feed, from + 1, from + n))])])])])

\* The page sizes the API may choose for the request: any split, never an
\* empty page while items remain.
page_sizes(c) ==
    LET left == Len(feed) - position_of(c) IN
    IF left = 0 THEN {0}
    ELSE { n \in 1..MaxPage : n <= left }

\* An HTTP response: a status, and a body that is JSON or is not.
Json(status_code, body) ==
    [status_code |-> status_code, is_json |-> TRUE, json |-> body]
Text(status_code) ==
    [status_code |-> status_code, is_json |-> FALSE, json |-> None_]

with_errors(body) ==
    Dict(body.v @@ [errors |-> List(<<Str("RATE_LIMITED")>>)])

\* What the endpoint may answer to a page request carrying cursor c.
page_responses(c) ==
    { Json(200, page_body(c, n)) : n \in page_sizes(c) }
    \cup { Text(502), Text(200) }
    \cup { Json(200, with_errors(page_body(c, n))) : n \in page_sizes(c) }

project_body(p) ==
    Dict([data |-> Dict([organization |-> Dict([projectV2 |-> p])])])

\* What the endpoint may answer to the project lookup.
lookup_responses ==
    { Json(200, project_body(Dict([id |-> Str("PVT_1"),
                                   title |-> Str(ProjectTitle)]))),
      Json(200, project_body(None_)),
      Json(200, with_errors(project_body(None_))),
      Text(502), Text(200) }

---------------------------------------------------------------------------
(* GraphQL client *)

\* Mutant of run_query: the GraphQL errors entry is not looked at.
run_query_ignoring_errors(resp) ==
    IF resp.status_code /= 200 THEN Raise("Exception: Erro na API GitHub")
    ELSE IF ~resp.is_json THEN Raise("JSONDecodeError")
    ELSE resp.json

\* Mutant of run_query: the status code is not looked at.
run_query_ignoring_status(resp) ==
    IF ~resp.is_json THEN Raise("JSONDecodeError")
    ELSE IF Has(resp.json, "errors") THEN Raise("Exception: Erro GraphQL")
    ELSE resp.json

\* run_query once the response of its one requests.post is in: the value it
\* returns or the exception it raises.
run_query(resp) ==
    IF resp.status_code /= 200 THEN Raise("Exception: Erro na API GitHub")
    ELSE IF ~resp.is_json THEN Raise("JSONDecodeError")
    ELSE IF Has(resp.json, "errors") THEN Raise("Exception: Erro GraphQL")
    ELSE resp.json

\* get_project_id_from_url for PROJECT_URL, which matches the pattern with
\* entity_type "orgs": the (id, title) pair or the exception.
get_project_id_from_url(resp) ==
    LET data == run_query(resp)
        p == Index(Index(Index(data, "data"), "organization"), "projectV2")
        id == Index(p, "id")
        title == Index(p, "title")
    IN  IF id.t = "raise" THEN id
        ELSE IF title.t = "raise" THEN title
        ELSE [t |-> "tuple", v |-> <<id, title>>]

---------------------------------------------------------------------------
(* Paginated item fetcher: the loop body of get_project_items *)

\* Mutant of extend: the page replaces what was accumulated.
extend_overwrite(acc, nodes) == nodes.v

\* results.extend(items["nodes"])
extend(acc, nodes) == acc \o nodes.v

\* Mutant of last_page: the test without its `not`.
last_page_inverted(page) == truthy(page.v["pageInfo"].v["hasNextPage"])

\* `if not items["pageInfo"]["hasNextPage"]: break`
last_page(page) == ~truthy(page.v["pageInfo"].v["hasNextPage"])

\* cursor = items["pageInfo"]["endCursor"]
next_cursor(page) == page.v["pageInfo"].v["endCursor"]

\* data["data"]["node"]["items"] of what run_query gave
page_of(data) == Index(Index(Index(data, "data"), "node"), "items")

---------------------------------------------------------------------------
(* Dates *)

\* parser.isoparse on the closedAt strings the API serves.
isoparse(s) ==
    CASE s = "2025-09-30T23:59:59Z" ->
            [year |-> 2025, month |-> 9, day |-> 30, hour |-> 23, minute |-> 59, second |-> 59]
      [] s = "2025-10-06T23:59:59Z" ->
            [year |-> 2025, month |-> 10, day |-> 6, hour |-> 23, minute |-> 59, second |-> 59]
      [] s = "2025-10-07T23:59:59Z" ->
            [year |-> 2025, month |-> 10, day |-> 7, hour |-> 23, minute |-> 59, second |-> 59]
      [] s = "2025-12-10T23:59:59Z" ->
            [year |-> 2025, month |-> 12, day |-> 10, hour |-> 23, minute |-> 59, second |-> 59]
      [] s = "2025-12-11T00:00:00Z" ->
            [year |-> 2025, month |-> 12, day |-> 11, hour |-> 0, minute |-> 0, second |-> 0]

\* The characters of str(n), as a sequence of one-character strings.
RECURSIVE chars(_)
chars(n) == IF n < 10 THEN <<Digit(n)>>
            ELSE chars(n \div 10) \o <<Digit(n % 10)>>

\* f"{n:02d}" as characters.
pad2(n) == IF n < 10 THEN <<"0">> \o chars(n) ELSE chars(n)

\* closed.date().isoformat() as characters: YYYY-MM-DD.
date_isoformat(closed) ==
    chars(closed.year) \o <<"-">> \o pad2(closed.month) \o <<"-">> \o pad2(closed.day)

\* ord() of the characters of an ISO date.
ord(c) == CASE c = "-" -> 45 [] c = "0" -> 48 [] c = "1" -> 49 [] c = "2" -> 50
            [] c = "3" -> 51 [] c = "4" -> 52 [] c = "5" -> 53 [] c = "6" -> 54
            [] c = "7" -> 55 [] c = "8" -> 56 [] c = "9" -> 57

\* Python's a <= b on strings: lexicographic by code point.
RECURSIVE str_le(_, _)
str_le(a, b) ==
    IF a = <<>> THEN TRUE
    ELSE IF b = <<>> THEN FALSE
    ELSE IF ord(Head(a)) < ord(Head(b)) THEN TRUE
    ELSE IF ord(Head(a)) > ord(Head(b)) THEN FALSE
    ELSE str_le(Tail(a), Tail(b))

START_DATE == <<"2", "0", "2", "5", "-", "1", "0", "-", "0", "7">>
END_DATE   == <<"2", "0", "2", "5", "-", "1", "2", "-", "1", "0">>

\* Mutant of in_date_range: the start of the range is exclusive.
in_date_range_exclusive(closed) ==
    /\ ~str_le(date_isoformat(closed), START_DATE)
    /\ str_le(date_isoformat(closed), END_DATE)

\* START_DATE <= closed.date().isoformat() <= END_DATE
in_date_range(closed) ==
    /\ str_le(START_DATE, date_isoformat(closed))
    /\ str_le(date_isoformat(closed), END_DATE)

\* f"{closed.year}-{closed.month:02d}"
closed_month_of(closed) ==
    str(closed.year) \o "-" \o (IF closed.month < 10 THEN "0" ELSE "") \o str(closed.month)

\* The values the CONFIG block's FILTER_MONTHS takes: the one shipped, and
\* one naming two months.
MonthConfigs == { <<"2025-09">>, <<"2025-09", "2025-10">> }

InList(x, l) == \E i \in 1..Len(l) : l[i] = x

---------------------------------------------------------------------------
(* __main__: filtering and extraction *)

\* The loop of team_metrics.py over items from position i on, acc being
\* filtered_issues so far: the final list, or the exception that ended it.
RECURSIVE filter_range(_, _, _, _)
filter_range(its, i, acc, title) ==
    IF i > Len(its) THEN [raised |-> FALSE, what |-> "", issues |-> acc]
    ELSE LET it == its[i]
             issue == Get(it, "content")
         IN
         IF ~truthy(issue) \/ ~truthy(Get(issue, "closedAt"))
         THEN filter_range(its, i + 1, acc, title)
         ELSE LET closed == isoparse(issue.v["closedAt"].v) IN
              IF ~in_date_range(closed)
              THEN filter_range(its, i + 1, acc, title)
              ELSE LET ty == extract_type(it)
                       sc == extract_scope(it)
                   IN
                   IF ty.t = "raise" THEN [raised |-> TRUE, what |-> ty.v, issues |-> acc]
                   ELSE IF sc.t = "raise" THEN [raised |-> TRUE, what |-> sc.v, issues |-> acc]
                   ELSE filter_range(its, i + 1, Append(acc,
                            [project |-> title, scope |-> sc.v, type |-> ty.v,
                             number |-> issue.v["number"].v,
                             title |-> issue.v["title"].v,
                             state |-> issue.v["state"].v,
                             closedAt |-> issue.v["closedAt"].v]), title)

\* The loop of capitalizacao.py over items; acc holds the issue_dicts in the
\* order they were appended to month_scope_issues.
RECURSIVE filter_monthly(_, _, _, _, _)
filter_monthly(its, i, acc, title, months) ==
    IF i > Len(its) THEN [raised |-> FALSE, what |-> "", issues |-> acc]
    ELSE LET it == its[i]
             issue == Get(it, "content")
         IN
         IF ~truthy(issue) \/ ~truthy(Get(issue, "closedAt"))
         THEN filter_monthly(its, i + 1, acc, title, months)
         ELSE LET closed == isoparse(issue.v["closedAt"].v)
                  closed_month == closed_month_of(closed)
              IN
              IF ~InList(closed_month, months)
              THEN filter_monthly(its, i + 1, acc, title, months)
              ELSE LET ty == extract_type(it)
                       sc == extract_scope(it)
                   IN
                   IF ty.t = "raise" THEN [raised |-> TRUE, what |-> ty.v, issues |-> acc]
                   ELSE IF sc.t = "raise" THEN [raised |-> TRUE, what |-> sc.v, issues |-> acc]
                   ELSE filter_monthly(its, i + 1, Append(acc,
                            [project |-> title, month |-> closed_month,
                             scope |-> sc.v, type |-> ty.v,
                             number |-> issue.v["number"].v,
                             title |-> issue.v["title"].v,
                             state |-> issue.v["state"].v,
                             closedAt |-> issue.v["closedAt"].v]), title, months)

---------------------------------------------------------------------------
(* __main__: grouping and report lines *)

\* The keys of a dict filled by appending in this order: each value once,
\* in order of first appearance.
RECURSIVE keys_in_order(_)
keys_in_order(s) ==
    IF s = <<>> THEN <<>>
    ELSE LET rest == keys_in_order(SubSeq(s, 1, Len(s) - 1))
             x == s[Len(s)]
         IN  IF InList(x, rest) THEN rest ELSE Append(rest, x)

Column(issues, col) == [i \in 1..Len(issues) |-> issues[i][col]]
Where(issues, col, val) == SelectSeq(issues, LAMBDA r : r[col] = val)

RECURSIVE Concat(_)
Concat(ss) == IF ss = <<>> THEN <<>> ELSE Head(ss) \o Concat(Tail(ss))

\* f"{perc:.1f}" of perc = 100.0 * count / total (0 when total is 0).
perc_1f(count, total) ==
    IF total = 0 THEN "0.0"
    ELSE LET q == (1000 * count) \div total
             r == (1000 * count) % total
             tenths == IF 2 * r > total \/ (2 * r = total /\ q % 2 = 1)
                       THEN q + 1 ELSE q
         IN  str(tenths \div 10) \o "." \o Digit(tenths % 10)

\* Counter([i["type"] for i in issues]) as its "- t: count (perc%)" lines.
type_lines(issues) ==
    LET ts == keys_in_order(Column(issues, "type")) IN
    [k \in 1..Len(ts) |->
        [type |-> ts[k],
         count |-> Len(Where(issues, "type", ts[k])),
         perc |-> perc_1f(Len(Where(issues, "type", ts[k])), Len(issues))]]

\* month_scope_issues.keys()
months_of(issues) == keys_in_order(Column(issues, "month"))

\* month_scope_issues[month].keys()
scopes_of(issues, month) ==
    keys_in_order(Column(Where(issues, "month", month), "scope"))

\* month_scope_issues[month][scope]
issues_of(issues, month, sc) == Where(Where(issues, "month", month), "scope", sc)

\* The Markdown blocks of one month, one per scope (capitalizacao.py).
scope_blocks(issues, month) ==
    LET scs == scopes_of(issues, month) IN
    [k \in 1..Len(scs) |->
        [kind |-> "scope", month |-> month, scope |-> scs[k],
         total |-> Len(issues_of(issues, month, scs[k])),
         types |-> type_lines(issues_of(issues, month, scs[k]))]]

\* Mutant of all_issues_of: each scope replaces the rows instead of
\* extending them, so the last scope's issues remain.
all_issues_last_scope(issues, month) ==
    LET scs == scopes_of(issues, month) IN
    IF scs = <<>> THEN <<>> ELSE issues_of(issues, month, scs[Len(scs)])

\* all_issues of one month: the issues of its scopes, scope after scope.
all_issues_of(issues, month) ==
    LET scs == scopes_of(issues, month) IN
    Concat([k \in 1..Len(scs) |-> issues_of(issues, month, scs[k])])

\* The Markdown lines of team_metrics.py before the CSV is written.
range_lines(issues) ==
    LET tl == type_lines(issues) IN
    <<[kind |-> "total", total |-> Len(issues)]>>
    \o [k \in 1..Len(tl) |-> [kind |-> "type"] @@ tl[k]]

\* project_title.replace(' ', '_')
underscored(title) == CASE title = "Team Board" -> "Team_Board" [] OTHER -> title

csv_name_month(title, month) == underscored(title) \o "_" \o month \o ".csv"
RECURSIVE join(_)
join(cs) == IF cs = <<>> THEN "" ELSE Head(cs) \o join(Tail(cs))
csv_name_range(title) ==
    underscored(title) \o "_" \o join(START_DATE) \o "_a_" \o join(END_DATE) \o ".csv"

\* Mutant of first_write: the Markdown summary is written first.
first_write_markdown(v, months) == "md"

\* Where __main__ goes after grouping, and after each CSV.
first_write(v, months) ==
    IF v = "monthly" /\ months = <<>> THEN "md" ELSE "csv"
after_csv(rest) == IF rest = <<>> THEN "md" ELSE "csv"

---------------------------------------------------------------------------
(* The run of a script *)

NoError == [at |-> "none", what |-> ""]
NoResponse == Text(0)
Idle == << >>

harness_idle ==
    /\ item = None_ /\ tipo = None_ /\ scope = None_ /\ scope2 = None_

Init ==
    /\ variant \in {"monthly", "range"}
    /\ FILTER_MONTHS \in (IF variant = "monthly" THEN MonthConfigs ELSE { <<>> })
    /\ feed \in Feeds(MaxItems)
    /\ pc = "resolve"
    /\ project = [id |-> "", title |-> ""]
    /\ cursor = None_
    /\ results = <<>>
    /\ log = <<>>
    /\ response = NoResponse
    /\ outcome = None_
    /\ posts = 0
    /\ calls = 0
    /\ items = <<>>
    /\ filtered_issues = <<>>
    /\ todo = <<>>
    /\ files = Idle
    /\ writes = <<>>
    /\ md_lines = <<>>
    /\ error = NoError
    /\ harness_idle

\* project_id, project_title = get_project_id_from_url(PROJECT_URL)
Resolve ==
    /\ pc = "resolve"
    /\ \E resp \in lookup_responses :
          LET r == get_project_id_from_url(resp) IN
          /\ response' = resp
          /\ outcome' = run_query(resp)
          /\ posts' = posts + 1
          /\ calls' = calls + 1
          /\ IF r.t = "raise"
             THEN /\ pc' = "failed"
                  /\ error' = [at |-> "resolve", what |-> r.v]
                  /\ UNCHANGED project
             ELSE /\ pc' = "fetch"
                  /\ project' = [id |-> r.v[1].v, title |-> r.v[2].v]
                  /\ UNCHANGED error
    /\ UNCHANGED <<variant, FILTER_MONTHS, feed, cursor, results, log, items,
                   filtered_issues, todo, files, writes, md_lines,
                   item, tipo, scope, scope2>>

\* One iteration of the while loop of get_project_items; the last one
\* returns results to __main__.
FetchPage ==
    /\ pc = "fetch"
    /\ \E resp \in page_responses(cursor) :
          LET data == run_query(resp)
              page == page_of(data)
          IN
          /\ response' = resp
          /\ outcome' = data
          /\ posts' = posts + 1
          /\ calls' = calls + 1
          /\ log' = Append(log, [cursor |-> cursor, response |-> resp])
          /\ IF page.t = "raise"
             THEN /\ pc' = "failed"
                  /\ error' = [at |-> "fetch", what |-> page.v]
                  /\ UNCHANGED <<results, cursor, items>>
             ELSE /\ results' = extend(results, page.v["nodes"])
                  /\ UNCHANGED error
                  /\ IF last_page(page)
                     THEN /\ items' = results'
                          /\ pc' = "group"
                          /\ UNCHANGED cursor
                     ELSE /\ cursor' = next_cursor(page)
                          /\ UNCHANGED <<pc, items>>
    /\ UNCHANGED <<variant, FILTER_MONTHS, feed, project, filtered_issues, todo,
                   files, writes, md_lines, item, tipo, scope, scope2>>

\* The filter loop of __main__ and the grouping that follows it, up to the
\* first file to open.
GroupItems ==
    /\ pc = "group"
    /\ LET r == IF variant = "monthly"
                THEN filter_monthly(items, 1, <<>>, project.title, FILTER_MONTHS)
                ELSE filter_range(items, 1, <<>>, project.title)
       IN
       IF r.raised
       THEN /\ pc' = "failed"
            /\ error' = [at |-> "group", what |-> r.what]
            /\ UNCHANGED <<filtered_issues, todo, md_lines>>
       ELSE /\ filtered_issues' = r.issues
            /\ todo' = IF variant = "monthly" THEN months_of(r.issues) ELSE <<>>
            /\ md_lines' = IF variant = "monthly" THEN <<>> ELSE range_lines(r.issues)
            /\ pc' = first_write(variant, todo')
            /\ UNCHANGED error
    /\ UNCHANGED <<variant, FILTER_MONTHS, feed, project, cursor, results, log,
                   response, outcome, posts, calls, items, files, writes,
                   item, tipo, scope, scope2>>

\* The CSV about to be written: its name, its rows, and the Markdown lines
\* appended before it is opened.
csv_job ==
    IF variant = "monthly"
    THEN [name |-> csv_name_month(project.title, Head(todo)),
          rows |-> all_issues_of(filtered_issues, Head(todo)),
          before |-> scope_blocks(filtered_issues, Head(todo))]
    ELSE [name |-> csv_name_range(project.title),
          rows |-> filtered_issues,
          before |-> <<>>]

\* One CSV opened and written in full, and its line added to the summary.
WriteCsv ==
    /\ pc = "csv"
    /\ files' = (csv_job.name :> csv_job.rows) @@ files
    /\ writes' = Append(writes, csv_job.name)
    /\ md_lines' = md_lines \o csv_job.before
                     \o <<[kind |-> "csv", name |-> csv_job.name]>>
    /\ todo' = IF variant = "monthly" THEN Tail(todo) ELSE todo
    /\ pc' = after_csv(todo')
    /\ UNCHANGED <<variant, FILTER_MONTHS, feed, project, cursor, results, log,
                   response, outcome, posts, calls, items, filtered_issues,
                   error, item, tipo, scope, scope2>>

\* open() of the CSV raises, or a write to it does after the file was
\* created: the exception ends the run.
CsvFails ==
    /\ pc = "csv"
    /\ \/ UNCHANGED <<files, writes>>
       \/ /\ files' = (csv_job.name :> <<>>) @@ files
          /\ writes' = Append(writes, csv_job.name)
    /\ md_lines' = md_lines \o csv_job.before
    /\ pc' = "failed"
    /\ error' = [at |-> "csv", what |-> "OSError"]
    /\ UNCHANGED <<variant, FILTER_MONTHS, feed, project, cursor, results, log,
                   response, outcome, posts, calls, items, filtered_issues,
                   todo, item, tipo, scope, scope2>>

\* relatorio.md opened and written.
WriteMarkdown ==
    /\ pc = "md"
    /\ files' = ("relatorio.md" :> md_lines) @@ files
    /\ writes' = Append(writes, "relatorio.md")
    /\ pc' = "done"
    /\ UNCHANGED <<variant, FILTER_MONTHS, feed, project, cursor, results, log,
                   response, outcome, posts, calls, items, filtered_issues,
                   todo, md_lines, error, item, tipo, scope, scope2>>

\* open("relatorio.md", "w") raises.
MarkdownFails ==
    /\ pc = "md"
    /\ pc' = "failed"
    /\ error' = [at |-> "md", what |-> "OSError"]
    /\ UNCHANGED <<variant, FILTER_MONTHS, feed, project, cursor, results, log,
                   response, outcome, posts, calls, items, filtered_issues,
                   todo, files, writes, md_lines, item, tipo, scope, scope2>>

Next ==
    \/ Resolve
    \/ FetchPage
    \/ GroupItems
    \/ WriteCsv
    \/ CsvFails
    \/ WriteMarkdown
    \/ MarkdownFails

Spec == Init /\ [][Next]_vars

---------------------------------------------------------------------------
(* The extractors on their own, over every shape of RawItem *)

NoKeys == [k \in {} |-> None_]

\* The values a field-value record carries: a single-select name, a text,
\* a number, an empty name.
ValueShapes ==
    { "name" :> Str("Bug"), "text" :> Str("Feature"), "number" :> Num(0),
      "name" :> Str("") }

FieldNames == { "Kind", " KIND ", "Type", "Scope", "Status" }

\* The entries of fieldValues.nodes: null, {}, records without a usable
\* field, and records naming a field.
FieldRecords ==
    { None_, EmptyDict,
      Dict("name" :> Str("Bug")),
      Dict([field |-> None_, name |-> Str("Bug")]),
      Dict([field |-> EmptyDict, name |-> Str("Bug")]),
      Dict([field |-> Dict([name |-> None_]), name |-> Str("Bug")]) }
    \cup { Dict([field |-> Dict([name |-> Str(n)])] @@ val) :
              n \in FieldNames, val \in ValueShapes }

RECURSIVE Lists(_, _)
Lists(S, n) ==
    IF n = 0 THEN { <<>> }
    ELSE LET shorter == Lists(S, n - 1) IN
         shorter \cup { Append(l, x) : l \in { m \in shorter : Len(m) = n - 1 },
                                       x \in S }

FieldValuesParts ==
    { NoKeys, "fieldValues" :> None_, "fieldValues" :> EmptyDict,
      "fieldValues" :> Dict([nodes |-> None_]) }
    \cup { "fieldValues" :> Dict([nodes |-> List(l)]) :
              l \in Lists(FieldRecords, MaxFields) }

ContentParts ==
    { NoKeys, "content" :> None_,
      "content" :> Dict([issueType |-> None_]),
      "content" :> Dict([issueType |-> Dict([name |-> Str("")])]),
      "content" :> Dict([issueType |-> Dict([name |-> Str("Task")])]) }

RawItems == { Dict(c @@ f) : c \in ContentParts, f \in FieldValuesParts }

InitExtract ==
    /\ variant = "none"
    /\ FILTER_MONTHS = <<>>
    /\ feed = <<>>
    /\ pc = "harness"
    /\ project = [id |-> "", title |-> ""]
    /\ cursor = None_
    /\ results = <<>>
    /\ log = <<>>
    /\ response = NoResponse
    /\ outcome = None_
    /\ posts = 0
    /\ calls = 0
    /\ items = <<>>
    /\ filtered_issues = <<>>
    /\ todo = <<>>
    /\ files = Idle
    /\ writes = <<>>
    /\ md_lines = <<>>
    /\ error = NoError
    /\ item \in RawItems
    /\ tipo = None_ /\ scope = None_ /\ scope2 = None_

pipeline_vars ==
    <<variant, FILTER_MONTHS, feed, project, cursor, results, log, response,
      outcome, posts, calls, items, filtered_issues, todo, files, writes,
      md_lines, error>>

\* tipo = extract_type(item); scope = extract_scope(item)
Extract ==
    /\ pc = "harness"
    /\ tipo' = extract_type(item)
    /\ scope' = extract_scope(item)
    /\ pc' = "extracted"
    /\ UNCHANGED <<pipeline_vars, item, scope2>>

\* extract_scope(item) once more on the same item.
ExtractAgain ==
    /\ pc = "extracted"
    /\ scope2' = extract_scope(item)
    /\ pc' = "extracted twice"
    /\ UNCHANGED <<pipeline_vars, item, tipo, scope>>

NextExtract == Extract \/ ExtractAgain

ExtractSpec == InitExtract /\ [][NextExtract]_vars

---------------------------------------------------------------------------
(* Properties: what the responses on record say, read off the responses *)

\* The response carries a page: status 200, JSON, no top-level errors.
Served(resp) ==
    /\ resp.status_code = 200
    /\ resp.is_json
    /\ "errors" \notin DOMAIN resp.json.v

\* The response is a failed page request: non-200, or a GraphQL errors payload.
PageFailed(resp) ==
    \/ resp.status_code /= 200
    \/ resp.is_json /\ "errors" \in DOMAIN resp.json.v

ItemsOf(resp) == resp.json.v["data"].v["node"].v["items"].v
NodesOf(resp) == IF Served(resp) THEN ItemsOf(resp)["nodes"].v ELSE <<>>
SaysMore(resp) == ItemsOf(resp)["pageInfo"].v["hasNextPage"].v
EndCursorOf(resp) == ItemsOf(resp)["pageInfo"].v["endCursor"]

\* The nodes of all pages served so far, page after page.
AllNodes == Concat([i \in 1..Len(log) |-> NodesOf(log[i].response)])

\* get_project_items has returned to __main__.
Fetched ==
    \/ pc \in {"group", "csv", "md", "done"}
    \/ pc = "failed" /\ error.at \in {"group", "csv", "md"}

\* C1: get_project_items returns exactly the concatenation of the nodes of
\* all pages, in the order served, which is the API's sequence of items
\* whatever the split into pages; and while the loop runs, results is the
\* concatenation of the pages served so far.
C1_FetchIsConcatenation ==
    /\ pc = "fetch" => results = AllNodes
    /\ Fetched => items = AllNodes /\ items = feed

\* C1 witness: a three-item project fetched in two pages.
C1_Witness ==
    /\ pc = "group"
    /\ Len(feed) = 3
    /\ Len(log) = 2
    /\ items = feed

\* C2: the first request carries a null cursor; every later request follows
\* a page that reported hasNextPage true and carries that page's endCursor;
\* the loop is still running only if every page so far reported true, and
\* once it has returned the last page it asked for was the first to report
\* false.
C2_LoopEndsAtLastPage ==
    /\ Len(log) >= 1 => log[1].cursor = None_
    /\ \A i \in 2..Len(log) :
          /\ Served(log[i - 1].response)
          /\ SaysMore(log[i - 1].response)
          /\ log[i].cursor = EndCursorOf(log[i - 1].response)
    /\ pc = "fetch" =>
          \A i \in 1..Len(log) : Served(log[i].response) /\ SaysMore(log[i].response)
    /\ Fetched =>
          /\ Len(log) >= 1
          /\ Served(log[Len(log)].response)
          /\ ~SaysMore(log[Len(log)].response)
          /\ \A i \in 1..(Len(log) - 1) : SaysMore(log[i].response)

\* C2 witness: the fetch returned after three requests, the later two
\* carrying cursors.
C2_Witness ==
    /\ Fetched
    /\ Len(log) = 3
    /\ log[1].cursor = None_
    /\ log[3].cursor /= None_

\* C3: once a page request has failed (non-200 or errors payload), the run
\* is dead at the fetch: __main__ never received a list, nothing was
\* grouped, no file was opened.
C3_FailedPageFailsRun ==
    (\E i \in 1..Len(log) : PageFailed(log[i].response)) =>
        /\ pc = "failed"
        /\ error.at = "fetch"
        /\ PageFailed(log[Len(log)].response)
        /\ items = <<>>
        /\ filtered_issues = <<>>
        /\ md_lines = <<>>
        /\ writes = <<>>
        /\ files = Idle

\* C3 witness: the second page failed with an errors payload after the
\* first page's items were accumulated.
C3_Witness ==
    /\ Len(log) = 2
    /\ PageFailed(log[2].response)
    /\ log[2].response.status_code = 200
    /\ Len(results) > 0
    /\ pc = "failed"

\* C9 (amended): run_query posts once per call and ends in one of four
\* ways: a transport exception on a non-200 status; on a 200, a decode
\* exception when the body is not JSON, a GraphQL exception when the decoded
\* body has a top-level errors entry, and otherwise the whole decoded body
\* (the object that holds "data"), returned as it is.
C9_RunQueryOutcomes ==
    /\ posts = calls
    /\ calls > 0 =>
        /\ response.status_code /= 200 =>
              outcome = Raise("Exception: Erro na API GitHub")
        /\ response.status_code = 200 /\ ~response.is_json =>
              outcome = Raise("JSONDecodeError")
        /\ response.status_code = 200 /\ response.is_json
             /\ "errors" \in DOMAIN response.json.v =>
              outcome = Raise("Exception: Erro GraphQL")
        /\ Served(response) =>
              /\ outcome = response.json
              /\ "data" \in DOMAIN outcome.v

\* C9 witness: a call that succeeded.
C9_Witness ==
    /\ calls > 0
    /\ Served(response)
    /\ outcome.t = "dict"

\* C9 as claimed: three outcomes, the successful one returning the `data`
\* payload of the response.
C9_AsClaimed ==
    calls > 0 =>
        /\ response.status_code /= 200 => outcome.t = "raise"
        /\ response.status_code = 200 /\ response.is_json
             /\ "errors" \in DOMAIN response.json.v => outcome.t = "raise"
        /\ response.status_code = 200 /\ response.is_json
             /\ "errors" \notin DOMAIN response.json.v =>
              outcome = response.json.v["data"]


Range(q) == { q[i] : i \in 1..Len(q) }

RECURSIVE SumSeq(_)
SumSeq(q) == IF q = <<>> THEN 0 ELSE Head(q) + SumSeq(Tail(q))

\* The calendar day of a parsed closedAt, as the number YYYYMMDD.
DayNumber(closed) == closed.year * 10000 + closed.month * 100 + closed.day

\* The item has content, a closedAt, and was closed on a day from
\* 2025-10-07 to 2025-12-10, both included.
InWindow(it) ==
    /\ "content" \in DOMAIN it.v
    /\ it.v["content"].t = "dict"
    /\ it.v["content"].v["closedAt"].t = "str"
    /\ DayNumber(isoparse(it.v["content"].v["closedAt"].v)) \in 20251007..20251210

\* filtered_issues holds what the filter loop produced.
Filtered ==
    \/ pc \in {"csv", "md", "done"}
    \/ pc = "failed" /\ error.at \in {"csv", "md"}

\* C7: in the date-range variant the ExtractedIssue records are, in order,
\* exactly the fetched items that have content, a closedAt, and a closing
\* day within START_DATE..END_DATE inclusive.
C7_DateRangeFilter ==
    variant = "range" /\ Filtered =>
        LET kept == SelectSeq(items, InWindow) IN
        /\ Len(filtered_issues) = Len(kept)
        /\ \A i \in 1..Len(kept) :
              /\ filtered_issues[i].number = kept[i].v["content"].v["number"].v
              /\ filtered_issues[i].closedAt = kept[i].v["content"].v["closedAt"].v

\* C7 witness: an issue closed at 23:59:59 on START_DATE was kept, one
\* closed the day before was dropped, along with an item without content.
C7_Witness ==
    /\ variant = "range"
    /\ pc = "csv"
    /\ Len(items) = 3
    /\ Len(filtered_issues) = 1
    /\ filtered_issues[1].closedAt = "2025-10-07T23:59:59Z"
    /\ \E i \in 1..3 : items[i].v["content"].t = "None"
    /\ \E i \in 1..3 : /\ items[i].v["content"].t = "dict"
                       /\ items[i].v["content"].v["closedAt"] = Str("2025-10-06T23:59:59Z")

\* The rows of all CSV files on disk, file after file.
AllCsvRows ==
    LET names == DOMAIN files \ {"relatorio.md"}
        Rows[S \in SUBSET names] ==
            IF S = {} THEN <<>>
            ELSE LET n == CHOOSE x \in S : TRUE IN files[n] \o Rows[S \ {n}]
    IN  Rows[names]

\* C8: after a completed run every ExtractedIssue is a row of exactly one
\* CSV file; each group of the summary shows the number of CSV rows with
\* its key, each group appears once, and the group counts add up to the
\* number of ExtractedIssue records.
C8_EachIssueOnce ==
    pc = "done" =>
        LET md == files["relatorio.md"]
            groups == SelectSeq(md, LAMBDA l : l.kind \in {"scope", "type"})
            rows == AllCsvRows
            n == Len(filtered_issues)
            Same(x) == Len(SelectSeq(rows, LAMBDA r : r = x))
            InScope(m, sc) ==
                Len(SelectSeq(rows, LAMBDA r : r.month = m /\ r.scope = sc))
            InScopeType(m, sc, ty) ==
                Len(SelectSeq(rows, LAMBDA r : r.month = m /\ r.scope = sc
                                               /\ r.type = ty))
            OfType(ty) == Len(SelectSeq(rows, LAMBDA r : r.type = ty))
        IN
        /\ \A i \in 1..n : Same(filtered_issues[i]) = 1
        /\ Len(rows) = n
        /\ \A k \in 1..Len(groups) :
              IF variant = "monthly"
              THEN /\ groups[k].total = InScope(groups[k].month, groups[k].scope)
                   /\ groups[k].total >= 1
                   /\ SumSeq([j \in 1..Len(groups[k].types) |->
                                 groups[k].types[j].count]) = groups[k].total
                   /\ \A j \in 1..Len(groups[k].types) :
                         groups[k].types[j].count =
                             InScopeType(groups[k].month, groups[k].scope,
                                         groups[k].types[j].type)
                   /\ \A j \in 1..Len(groups) :
                         (groups[j].month = groups[k].month
                          /\ groups[j].scope = groups[k].scope) => j = k
              ELSE /\ groups[k].count = OfType(groups[k].type)
                   /\ groups[k].count >= 1
                   /\ \A j \in 1..Len(groups) :
                         groups[j].type = groups[k].type => j = k
        /\ SumSeq([k \in 1..Len(groups) |->
                      IF variant = "monthly" THEN groups[k].total
                      ELSE groups[k].count]) = n

\* C8 witness: a completed monthly run with three issues in two CSV files,
\* one month holding two scopes.
C8_Witness ==
    /\ pc = "done"
    /\ variant = "monthly"
    /\ Len(filtered_issues) = 3
    /\ Cardinality(DOMAIN files) = 3
    /\ Len(SelectSeq(files["relatorio.md"], LAMBDA l : l.kind = "scope")) = 3

\* C10: in the monthly variant no file is opened before the project is
\* resolved and the fetch has returned; the CSV files are opened in the
\* order of the months, one each; relatorio.md is opened only after the CSV
\* of every month, as the last file; so a run that died writing a CSV has
\* not written relatorio.md.
C10_WriteOrder ==
    variant = "monthly" =>
        LET months == months_of(filtered_issues) IN
        /\ writes /= <<>> => project.id /= "" /\ Fetched /\ items = feed
        /\ \A i \in 1..Len(writes) :
              IF writes[i] = "relatorio.md"
              THEN i = Len(writes) /\ i = Len(months) + 1
              ELSE i <= Len(months)
                   /\ writes[i] = csv_name_month(project.title, months[i])
        /\ DOMAIN files = Range(writes)
        /\ error.at = "csv" =>
              /\ "relatorio.md" \notin Range(writes)
              /\ "relatorio.md" \notin DOMAIN files

\* C10 witness: the run died writing the second month's CSV; the first
\* month's CSV is on disk, relatorio.md is not.
C10_Witness ==
    /\ variant = "monthly"
    /\ pc = "failed"
    /\ error.at = "csv"
    /\ Len(todo) = 1
    /\ Len(writes) >= 1
    /\ files[writes[1]] /= <<>>
    /\ "relatorio.md" \notin DOMAIN files


---------------------------------------------------------------------------
(* Properties of the extractors: the item read shape by shape *)

\* The entries of the item's field-value list, when it has one.
EntriesOf(it) ==
    IF /\ "fieldValues" \in DOMAIN it.v
       /\ it.v["fieldValues"].t = "dict"
       /\ "nodes" \in DOMAIN it.v["fieldValues"].v
       /\ it.v["fieldValues"].v["nodes"].t = "list"
    THEN it.v["fieldValues"].v["nodes"].v
    ELSE <<>>

\* The spellings under which the model serves each field name.
Spellings(canon) ==
    CASE canon = "Kind"  -> {"Kind", " KIND "}
      [] canon = "Type"  -> {"Type"}
      [] canon = "Scope" -> {"Scope", " Scope"}

\* The entry is a record of the field called canon.
NamedAs(f, canon) ==
    /\ f.t = "dict"
    /\ "field" \in DOMAIN f.v
    /\ f.v["field"].t = "dict"
    /\ "name" \in DOMAIN f.v["field"].v
    /\ f.v["field"].v["name"].t = "str"
    /\ f.v["field"].v["name"].v \in Spellings(canon)

\* The value of a record, whichever of the three shapes carries it.
ValueText(f) ==
    CASE "name" \in DOMAIN f.v -> f.v["name"].v
      [] "text" \in DOMAIN f.v -> f.v["text"].v
      [] "number" \in DOMAIN f.v -> IF f.v["number"].v = 0 THEN "0" ELSE "5"
      [] OTHER -> ""

PopulatedAt(it, canon) ==
    { i \in 1..Len(EntriesOf(it)) :
        NamedAs(EntriesOf(it)[i], canon) /\ ValueText(EntriesOf(it)[i]) /= "" }

\* The value of the last populated record of the field called canon.
LastValue(it, canon) ==
    LET I == PopulatedAt(it, canon)
        last == CHOOSE i \in I : \A j \in I : j <= i
    IN  ValueText(EntriesOf(it)[last])

\* A null where the scan dereferences: fieldValues or nodes null, or a
\* record whose field has a null name.
NullNamed(f) ==
    /\ f.t = "dict"
    /\ "field" \in DOMAIN f.v
    /\ f.v["field"].t = "dict"
    /\ "name" \in DOMAIN f.v["field"].v
    /\ f.v["field"].v["name"].t = "None"

Malformed(it) ==
    /\ "fieldValues" \in DOMAIN it.v
    /\ \/ it.v["fieldValues"].t = "None"
       \/ /\ "nodes" \in DOMAIN it.v["fieldValues"].v
          /\ it.v["fieldValues"].v["nodes"].t = "None"
       \/ \E i \in 1..Len(EntriesOf(it)) : NullNamed(EntriesOf(it)[i])

\* The item has no issueType: no content, or an issueType that is absent,
\* null, or has an empty name.
NoIssueType(it) ==
    \/ "content" \notin DOMAIN it.v
    \/ it.v["content"].t = "None"
    \/ "issueType" \notin DOMAIN it.v["content"].v
    \/ it.v["content"].v["issueType"].t = "None"
    \/ it.v["content"].v["issueType"].v["name"] \in {None_, Str("")}

Extracted == pc \in {"extracted", "extracted twice"}

\* C4: on an item whose field records all carry a name, with a Kind and a
\* Type field both populated, extract_type returns the Kind value; with only
\* a Type field populated it returns the Type value, whatever the issueType.
C4_KindBeforeType ==
    Extracted /\ ~Malformed(item) =>
        /\ PopulatedAt(item, "Kind") /= {} /\ PopulatedAt(item, "Type") /= {} =>
              tipo = Str(LastValue(item, "Kind"))
        /\ PopulatedAt(item, "Kind") = {} /\ PopulatedAt(item, "Type") /= {} =>
              tipo = Str(LastValue(item, "Type"))

\* C4 witness: Type listed before Kind, with different values, on an issue
\* that has an issueType; the Kind value came back.
C4_Witness ==
    /\ Extracted
    /\ PopulatedAt(item, "Type") = {1}
    /\ PopulatedAt(item, "Kind") = {2}
    /\ LastValue(item, "Type") = "Feature"
    /\ ~NoIssueType(item)
    /\ tipo = Str("Bug")

C6_ScopeTotal ==
    /\ Extracted => scope.t = "str" /\ scope.v /= ""
    /\ pc = "extracted twice" => scope2 = scope

===========================================================================
